---------------------------- MODULE Spec2Model ----------------------------
(***************************************************************************)
(* Profile-picture upload of the Flask application: picture_validation and *)
(* save_picture (app/modules/Image.py) as called by the account handler    *)
(* (app/modules/controllers.py).                                           *)
(*                                                                         *)
(* Strings are sequences of one-character strings, so that os.path         *)
(* .splitext, str.replace and str.lower are computed, not assumed.         *)
(* The storage directory static/img/profile_pics is the function `files`   *)
(* from the names present in it to what each file holds.                   *)
(***************************************************************************)
EXTENDS Integers, Sequences, FiniteSets, TLC

VARIABLES
    files,      \* storage directory: name -> [owner, kind]
    db,         \* committed rows of auth_user: id -> row (see Row)
    req,        \* one record per request worker (see IdleReq)
    used,       \* random tokens secrets.token_hex has returned so far
    nreq,       \* number of requests started (bounded by MaxUploads)
    nOk,        \* history: per user, uploads that completed successfully
    anyFail,    \* history: per user, some upload attempt did not succeed
    web         \* the browser's session cookie, its last request and the
                \* response to it (see the web layer below)

vars == <<files, db, req, used, nreq, nOk, anyFail, web>>

(***************************************************************************)
(* Bounds of the model.                                                    *)
(***************************************************************************)
MaxUploads == 3     \* requests started in one behaviour
MaxLen == 5         \* longest filename of the extension-policy check

Users == {"u1", "u2"}
Procs == {"p1", "p2"}

(***************************************************************************)
(* Characters and strings.                                                 *)
(***************************************************************************)
\* os.sep and os.extsep on POSIX (posixpath: altsep is None)
sep == "/"
extsep == "."

Max(S) == CHOOSE x \in S : \A y \in S : y <= x

\* str.rfind as a 1-based index, 0 when absent (Python: -1)
rfind(p, c) ==
    LET S == {i \in 1..Len(p) : p[i] = c}
    IN  IF S = {} THEN 0 ELSE Max(S)

\* genericpath._splitext: the extension starts at the last dot that follows
\* the last separator and is preceded, in that component, by a non-dot
splitext(p) ==
    LET sepIndex == rfind(p, sep)
        dotIndex == rfind(p, extsep)
    IN  IF /\ dotIndex > sepIndex
           /\ \E k \in (sepIndex + 1)..(dotIndex - 1) : p[k] # extsep
        THEN <<SubSeq(p, 1, dotIndex - 1), SubSeq(p, dotIndex, Len(p))>>
        ELSE <<p, <<>>>>

\* str.replace('.', '')
replace_dot(s) == SelectSeq(s, LAMBDA c : c # ".")

lower_char(c) ==
    CASE c = "J" -> "j"
      [] c = "P" -> "p"
      [] c = "G" -> "g"
      [] c = "N" -> "n"
      [] OTHER -> c

lower_identity(s) == s

\* str.lower
lower(s) == [i \in 1..Len(s) |-> lower_char(s[i])]

\* allowed_ext=['jpg','png']
allowed_ext == << <<"j", "p", "g">>, <<"p", "n", "g">> >>

ext_allowed_any(file_ext) == TRUE

\* file_ext.lower() in allowed_ext
ext_allowed(file_ext) ==
    \E i \in 1..Len(allowed_ext) : allowed_ext[i] = lower(file_ext)

\* picture_validation lines 25-28: the branch condition
picture_ok(filename) == ext_allowed(replace_dot(splitext(filename)[2]))

(***************************************************************************)
(* File names and the storage directory.                                   *)
(***************************************************************************)
\* models.py: profile_image default='default.png'
DefaultPng == <<"d", "e", "f", "a", "u", "l", "t", ".", "p", "n", "g">>

\* secrets.token_hex(8): 8 random bytes
TokenBytes == 8

HexDigits == <<"0", "1", "2", "3", "4", "5", "6", "7",
               "8", "9", "a", "b", "c", "d", "e", "f">>

\* the values of the random source the model draws from: one per request
\* that can run, each 2 * nbytes hexadecimal characters
token_hex(nbytes) ==
    {[i \in 1..(2 * nbytes) |-> HexDigits[k]] : k \in 1..MaxUploads}

StaticFile == [owner |-> "static", kind |-> "static"]

\* os.path.exists(_path) for a path in the storage directory
path_exists(fs, name) == name \in DOMAIN fs

os_remove_noop(fs, name) == fs

\* os.remove(_path), when it succeeds
os_remove(fs, name) == [n \in (DOMAIN fs) \ {name} |-> fs[n]]

\* resize.save(picture_path): creates or overwrites
write_file(fs, name, content) ==
    [n \in (DOMAIN fs) \cup {name} |-> IF n = name THEN content ELSE fs[n]]

\* if user.profile_image:
truthy(s) == Len(s) > 0

(***************************************************************************)
(* Image.thumbnail of Pillow, on sizes <<width, height>>.                  *)
(***************************************************************************)
\* output_size = (125, 125)
output_size == <<125, 125>>

Abs(i) == IF i < 0 THEN -i ELSE i

thumbnail_stretch(size, box) == box

\* Pillow before 7.0: each side that is too long is cut to the box and the
\* other one scaled by int(max(other * box / side, 1))
thumbnail_truncating(size, box) ==
    LET x1 == IF size[1] > box[1] THEN box[1] ELSE size[1]
        y1 == IF size[1] > box[1]
              THEN Max({(size[2] * box[1]) \div size[1], 1})
              ELSE size[2]
        x2 == IF y1 > box[2] THEN Max({(x1 * box[2]) \div y1, 1}) ELSE x1
        y2 == IF y1 > box[2] THEN box[2] ELSE y1
    IN  <<x2, y2>>

\* Pillow from 7.0 on: nothing is done to an image that fits; otherwise
\* the side that does not bind is floor or ceil of its exact value,
\* whichever is nearer to the aspect ratio (floor on a tie), at least 1
thumbnail_nearest(size, box) ==
    LET w == size[1]
        h == size[2]
        x == box[1]
        y == box[2]
        floor_x == (y * w) \div h
        ceil_x == IF (y * w) % h = 0 THEN floor_x ELSE floor_x + 1
        round_x == IF Abs(w * y - floor_x * h) <= Abs(w * y - ceil_x * h)
                   THEN floor_x ELSE ceil_x
        floor_y == (x * h) \div w
        ceil_y == IF (x * h) % w = 0 THEN floor_y ELSE floor_y + 1
        round_y == IF floor_y = 0 THEN floor_y
                   ELSE IF Abs(w * floor_y - x * h) * ceil_y
                              <= Abs(w * ceil_y - x * h) * floor_y
                        THEN floor_y ELSE ceil_y
    IN  IF x >= w /\ y >= h THEN size
        ELSE IF x * h >= y * w THEN <<Max({round_x, 1}), y>>
        ELSE <<x, Max({round_y, 1})>>

\* img.thumbnail(output_size): the sizes the installed release of Pillow
\* can produce (the repository pins none)
thumbnail(size, box) ==
    {thumbnail_truncating(size, box), thumbnail_nearest(size, box)}

(***************************************************************************)
(* Requests.                                                               *)
(***************************************************************************)
NoResult == [val |-> <<>>, ok |-> FALSE, set |-> FALSE]

IdleReq ==
    [pc |-> "idle", user |-> "none", filename |-> <<>>, decodable |-> FALSE,
     sess |-> <<>>, path |-> <<>>, picture_fn |-> <<>>, result |-> NoResult,
     raised |-> "none", outcome |-> "none", validations |-> 0,
     save_calls |-> 0, commits |-> 0,
     removes |-> {}, direct |-> FALSE, pre |-> [files |-> <<>>, db |-> <<>>],
     form_name |-> "", form_email |-> "", arg |-> "", loaded |-> "unset",
     image_size |-> <<250, 250>>, thumb |-> <<0, 0>>]

\* the filenames the account form is posted with
UploadNames ==
    { <<"a", ".", "J", "P", "G">>,       \* a.JPG
      <<"c", ".", "p", "d", "f">> }      \* c.pdf

\* the filenames of the extension-policy check: every string up to MaxLen
Alphabet == {".", "/", "j", "p", "g", "n", "J"}
AllNames == UNION {[1..n -> Alphabet] : n \in 0..MaxLen}

(***************************************************************************)
(* Rows of auth_user, password hashes and the session cookie.              *)
(***************************************************************************)
\* ids of the rows a registration inserts, in the order of the primary key
NewIds == <<"u3", "u4", "u5", "u6", "u7">>

AllIds == Users \cup {NewIds[i] : i \in 1..Len(NewIds)}

\* the salts generate_password_hash draws
Salts == {"s1"}

\* werkzeug.security.generate_password_hash(password)
generate_password_hash(salt, password) ==
    [method |-> "scrypt", salt |-> salt, digest |-> <<salt, password>>]

check_password_hash_any(pwhash, password) == TRUE

\* werkzeug.security.check_password_hash(pwhash, password)
check_password_hash(pwhash, password) ==
    pwhash.digest = <<pwhash.salt, password>>

\* models.User.__init__ and the column default of profile_image
User(name, email, password, role, status) ==
    [name |-> name, email |-> email, password |-> password, role |-> role,
     status |-> status, profile_image |-> DefaultPng]

\* User.query.filter_by(email=...).first(): the ids of the rows found
by_email(rows, email) == {u \in DOMAIN rows : rows[u].email = email}

\* models.User.email, unique=True: what the database accepts at a commit
unique_email(rows) ==
    \A u, v \in DOMAIN rows : rows[u].email = rows[v].email => u = v

\* flask_login stores str(user.id) in the session
IdStr(u) == "id:" \o u

\* int(user_id) in load_user, for the strings that are numbers
IsIdStr(s) == \E u \in AllIds : IdStr(u) = s

IntOf(s) == CHOOSE u \in AllIds : IdStr(u) = s

\* the session without flask_login's keys
NoSession == [k \in {} |-> FALSE]

\* flask_login.login_user(user): session['user_id'], session['_fresh']
login_user(session, u) ==
    [k \in (DOMAIN session) \cup {"user_id", "_fresh"} |->
        IF k = "user_id" THEN IdStr(u)
        ELSE IF k = "_fresh" THEN "True" ELSE session[k]]

logout_user_keep(session) == session

\* flask_login.logout_user(): pops user_id and _fresh
logout_user(session) ==
    [k \in (DOMAIN session) \ {"user_id", "_fresh"} |-> session[k]]

load_user_lenient(rows, user_id) ==
    IF IsIdStr(user_id) /\ IntOf(user_id) \in DOMAIN rows
    THEN IntOf(user_id)
    ELSE "none"

\* models.load_user: User.query.get(int(user_id)); the id of the row, "none"
\* for None, and "ValueError" when int() raises on a string that is not a
\* number
load_user(rows, user_id) ==
    IF ~IsIdStr(user_id) THEN "ValueError"
    ELSE IF IntOf(user_id) \in DOMAIN rows THEN IntOf(user_id)
    ELSE "none"

\* flask_login's current_user: load_user on the session's user_id, "none"
\* for the anonymous user
current_user(session, rows) ==
    IF "user_id" \in DOMAIN session
    THEN load_user(rows, session["user_id"])
    ELSE "none"

is_authenticated_never(session, rows) == FALSE

\* current_user.is_authenticated
is_authenticated(session, rows) ==
    current_user(session, rows) \notin {"none", "ValueError"}

NoRequest ==
    [route |-> "none", method |-> "none", name |-> "", email |-> "",
     password |-> "", part |-> "none"]

NoResponse == [status |-> 0, location |-> "", page |-> "", flash |-> <<>>]

InFlight(p) == req[p].pc \notin {"idle", "done"}

Init ==
    /\ files = [n \in {DefaultPng} |-> StaticFile]
    /\ db = [u \in Users |->
               IF u = "u1"
               THEN User("Anna", "a@x.io",
                         generate_password_hash("s1", "password1"), 1, 1)
               ELSE User("Bert", "b@x.io",
                         generate_password_hash("s1", "password2"), 1, 1)]
    /\ req = [p \in Procs |-> IdleReq]
    /\ used = {}
    /\ nreq = 0
    /\ nOk = [u \in AllIds |-> 0]
    /\ anyFail = [u \in AllIds |-> FALSE]
    /\ web = [session |-> NoSession, last |-> NoRequest,
              resp |-> NoResponse, n |-> 0, logged_out |-> "no"]

Finish(r, how) ==
    [r EXCEPT !.pc = "done", !.outcome = how]

\* an exception nothing catches ends the request (an error response)
Raise(r, exc) ==
    [r EXCEPT !.pc = "done", !.raised = exc, !.outcome = "error"]

Note(u, how) ==
    /\ nOk' = IF how = "updated" THEN [nOk EXCEPT ![u] = @ + 1] ELSE nOk
    /\ anyFail' = IF how = "updated" THEN anyFail
                  ELSE [anyFail EXCEPT ![u] = TRUE]

\* controllers.account lines 111-118, POST with a valid form and a
\* profile_picture part named f: current_user is the row as loaded into
\* the request's session; with an empty filename lines 116-123 are skipped
StartAccount(p, u, f, d, name, email) ==
    /\ ~InFlight(p)
    /\ nreq < MaxUploads
    /\ req' = [req EXCEPT ![p] =
                 [IdleReq EXCEPT !.pc = IF f = <<>> THEN "commit"
                                                   ELSE "validate",
                                 !.user = u,
                                 !.filename = f, !.decodable = d,
                                 !.sess = db[u].profile_image,
                                 !.form_name = name, !.form_email = email,
                                 !.pre = [files |-> files, db |-> db]]]
    /\ nreq' = nreq + 1
    /\ UNCHANGED <<files, db, used, nOk, anyFail>>

\* the same with a picture, the name and the email posted as they are
Begin(p, u, f, d) ==
    /\ f # <<>>
    /\ StartAccount(p, u, f, d, db[u].name, db[u].email)

\* one request at a time: the single-threaded request model, one worker
Worker == "p1"

BeginAlone(u, f, d) ==
    /\ Begin(Worker, u, f, d)
    /\ UNCHANGED web

\* picture_validation lines 25-32
Validate(p) ==
    /\ req[p].pc = "validate"
    /\ IF picture_ok(req[p].filename)
       THEN /\ req' = [req EXCEPT ![p].pc = "lookup",
                                  ![p].validations = @ + 1,
                                  ![p].save_calls = @ + 1]
            /\ UNCHANGED <<nOk, anyFail>>
       ELSE /\ req' = [req EXCEPT ![p].result =
                         [val |-> allowed_ext, ok |-> FALSE, set |-> TRUE],
                       ![p].validations = @ + 1,
                       ![p].pc = IF req[p].direct THEN "done" ELSE "account"]
            /\ UNCHANGED <<nOk, anyFail>>
    /\ UNCHANGED <<files, db, used, nreq, web>>

Lookup_Anonymous(p) ==
    /\ req[p].pc = "lookup"
    /\ req' = [req EXCEPT ![p].pc = IF truthy(req[p].sess) THEN "exists"
                                                           ELSE "gen",
                          ![p].path = req[p].sess]
    /\ UNCHANGED <<files, db, used, nreq, nOk, anyFail, web>>

\* save_picture lines 10-12: the row of the session, and the old path; with
\* no row for the id, first() returns None and user.profile_image raises
\* AttributeError
Lookup(p) ==
    /\ req[p].pc = "lookup"
    /\ IF req[p].user \in DOMAIN db
       THEN /\ req' = [req EXCEPT ![p].pc = IF truthy(req[p].sess)
                                            THEN "exists" ELSE "gen",
                                  ![p].path = req[p].sess]
            /\ UNCHANGED <<nOk, anyFail>>
       ELSE /\ req' = [req EXCEPT ![p] = Raise(@, "lookup: AttributeError")]
            /\ Note(req[p].user, "error")
    /\ UNCHANGED <<files, db, used, nreq, web>>

\* save_picture line 13
Exists(p) ==
    /\ req[p].pc = "exists"
    /\ req' = [req EXCEPT ![p].pc = IF path_exists(files, req[p].path)
                                    THEN "remove" ELSE "gen"]
    /\ UNCHANGED <<files, db, used, nreq, nOk, anyFail, web>>

\* save_picture line 14, os.remove succeeds
RemoveOk(p) ==
    /\ req[p].pc = "remove"
    /\ path_exists(files, req[p].path)
    /\ files' = os_remove(files, req[p].path)
    /\ req' = [req EXCEPT ![p].pc = "gen",
                          ![p].removes = @ \cup {req[p].path}]
    /\ UNCHANGED <<db, used, nreq, nOk, anyFail, web>>

\* save_picture line 14, os.remove raises OSError (permissions, or the file
\* is gone by now); nothing catches it
RemoveFails(p) ==
    /\ req[p].pc = "remove"
    /\ req' = [req EXCEPT ![p] = Raise(@, "remove: OSError")]
    /\ Note(req[p].user, "error")
    /\ UNCHANGED <<files, db, used, nreq, web>>

Generate_Lower(p) ==
    /\ req[p].pc = "gen"
    /\ \E t \in token_hex(TokenBytes) \ used :
          /\ used' = used \cup {t}
          /\ req' = [req EXCEPT ![p].pc = "open",
                                ![p].picture_fn =
                                    t \o lower(splitext(req[p].filename)[2])]
    /\ UNCHANGED <<files, db, nreq, nOk, anyFail, web>>

Generate_Reuse(p) ==
    /\ req[p].pc = "gen"
    /\ \E t \in token_hex(TokenBytes) :
          /\ used' = used \cup {t}
          /\ req' = [req EXCEPT ![p].pc = "open",
                                ![p].picture_fn =
                                    t \o splitext(req[p].filename)[2]]
    /\ UNCHANGED <<files, db, nreq, nOk, anyFail, web>>

\* save_picture lines 15-18: a token not drawn before (a collision of two
\* 64-bit random values is taken not to happen)
Generate(p) ==
    /\ req[p].pc = "gen"
    /\ \E t \in token_hex(TokenBytes) \ used :
          /\ used' = used \cup {t}
          /\ req' = [req EXCEPT ![p].pc = "open",
                                ![p].picture_fn =
                                    t \o splitext(req[p].filename)[2]]
    /\ UNCHANGED <<files, db, nreq, nOk, anyFail, web>>

OpenImage_Swallow(p) ==
    /\ req[p].pc = "open"
    /\ req' = [req EXCEPT ![p].pc = IF req[p].decodable THEN "save"
                                                        ELSE "returned"]
    /\ UNCHANGED <<nOk, anyFail>>
    /\ UNCHANGED <<files, db, used, nreq, web>>

\* save_picture lines 20-21: Image.open and thumbnail; undecodable bytes
\* raise UnidentifiedImageError
OpenImage(p) ==
    /\ req[p].pc = "open"
    /\ IF req[p].decodable
       THEN /\ \E t \in thumbnail(req[p].image_size, output_size) :
                  req' = [req EXCEPT ![p].pc = "save", ![p].thumb = t]
            /\ UNCHANGED <<nOk, anyFail>>
       ELSE /\ req' = [req EXCEPT ![p] = Raise(@, "open: UnidentifiedImageError")]
            /\ Note(req[p].user, "error")
    /\ UNCHANGED <<files, db, used, nreq, web>>

\* save_picture line 22, the write succeeds
SaveOk(p) ==
    /\ req[p].pc = "save"
    /\ files' = write_file(files, req[p].picture_fn,
                           [owner |-> req[p].user, kind |-> "thumbnail",
                            size |-> req[p].thumb])
    /\ req' = [req EXCEPT ![p].pc = "returned"]
    /\ UNCHANGED <<db, used, nreq, nOk, anyFail, web>>

\* save_picture line 22, the write raises; Pillow removes the file it
\* created or (older releases) leaves what was written so far
SaveFails(p, partial) ==
    /\ req[p].pc = "save"
    /\ files' = IF partial
                THEN write_file(files, req[p].picture_fn,
                                [owner |-> req[p].user, kind |-> "partial"])
                ELSE files
    /\ req' = [req EXCEPT ![p] = Raise(@, "save: OSError")]
    /\ Note(req[p].user, "error")
    /\ UNCHANGED <<db, used, nreq, web>>

\* save_picture line 23 and picture_validation line 30
Return(p) ==
    /\ req[p].pc = "returned"
    /\ req' = [req EXCEPT ![p].result =
                   [val |-> req[p].picture_fn, ok |-> TRUE, set |-> TRUE],
                 ![p].pc = IF req[p].direct THEN "done" ELSE "account"]
    /\ UNCHANGED <<files, db, used, nreq, nOk, anyFail, web>>

\* controllers.account lines 119-121: flash and redirect, nothing committed
Rejected(p) ==
    /\ req[p].pc = "account"
    /\ req[p].result.ok = FALSE
    /\ req' = [req EXCEPT ![p] = Finish(@, "rejected")]
    /\ Note(req[p].user, "rejected")
    /\ UNCHANGED <<files, db, used, nreq, web>>

Assign_Skip(p) ==
    /\ req[p].pc = "account"
    /\ req[p].result.ok = TRUE
    /\ req' = [req EXCEPT ![p].pc = "commit"]
    /\ UNCHANGED <<files, db, used, nreq, nOk, anyFail, web>>

\* controllers.account lines 122-123: current_user.profile_image=pic[0]
Assign(p) ==
    /\ req[p].pc = "account"
    /\ req[p].result.ok = TRUE
    /\ req' = [req EXCEPT ![p].sess = req[p].result.val, ![p].pc = "commit"]
    /\ UNCHANGED <<files, db, used, nreq, nOk, anyFail, web>>

NoteUpload(p, how) ==
    IF req[p].filename # <<>> THEN Note(req[p].user, how)
                              ELSE UNCHANGED <<nOk, anyFail>>

\* the UPDATE a commit issues: the columns whose value in the session
\* differs from the value loaded at the start of the request
flush(rows, r) ==
    LET loaded == r.pre.db[r.user]
    IN  [rows EXCEPT
           ![r.user].profile_image =
               IF r.sess # loaded.profile_image THEN r.sess ELSE @,
           ![r.user].name =
               IF r.form_name # loaded.name THEN r.form_name ELSE @,
           ![r.user].email =
               IF r.form_email # loaded.email THEN r.form_email ELSE @]

\* controllers.account lines 124-128: name and email are assigned and
\* db.session.commit() succeeds; the unique index on email holds
CommitOk(p) ==
    /\ req[p].pc = "commit"
    /\ unique_email(flush(db, req[p]))
    /\ db' = flush(db, req[p])
    /\ req' = [req EXCEPT ![p] = Finish([@ EXCEPT !.commits = @ + 1],
                                        "updated")]
    /\ NoteUpload(p, "updated")
    /\ UNCHANGED <<files, used, nreq, web>>

\* controllers.account line 126: db.session.commit() raises; the session is
\* rolled back when the request is torn down
CommitFails(p) ==
    /\ req[p].pc = "commit"
    /\ req' = [req EXCEPT ![p] = Raise(@, "commit: SQLAlchemyError")]
    /\ NoteUpload(p, "error")
    /\ UNCHANGED <<files, db, used, nreq, web>>

Step(p) ==
    \/ Validate(p)
    \/ Lookup(p)
    \/ Exists(p)
    \/ RemoveOk(p)
    \/ RemoveFails(p)
    \/ Generate(p)
    \/ OpenImage(p)
    \/ SaveOk(p)
    \/ \E partial \in BOOLEAN : SaveFails(p, partial)
    \/ Return(p)
    \/ Rejected(p)
    \/ Assign(p)
    \/ CommitOk(p)
    \/ CommitFails(p)

Next ==
    \/ \E u \in Users, f \in UploadNames, d \in BOOLEAN :
          BeginAlone(u, f, d)
    \/ Step(Worker)

Spec == Init /\ [][Next]_vars

(***************************************************************************)
(* The extension policy alone: picture_validation called directly, as the  *)
(* tests call it, once, with any filename up to MaxLen characters.         *)
(***************************************************************************)
\* tests/test_image.py: picture_validation(mock_file, 1)
CallPictureValidation(f) ==
    /\ nreq = 0
    /\ ~InFlight(Worker)
    /\ req' = [req EXCEPT ![Worker] =
                 [IdleReq EXCEPT !.pc = "validate", !.user = "u1",
                                 !.filename = f, !.decodable = TRUE,
                                 !.direct = TRUE,
                                 !.sess = db["u1"].profile_image,
                                 !.pre = [files |-> files, db |-> db]]]
    /\ nreq' = nreq + 1
    /\ UNCHANGED <<files, db, used, nOk, anyFail, web>>

NextExt ==
    \/ /\ nreq = 0
       /\ \E f \in AllNames : CallPictureValidation(f)
    \/ Validate(Worker)
    \/ Lookup(Worker)
    \/ Exists(Worker)
    \/ RemoveOk(Worker)
    \/ RemoveFails(Worker)
    \/ Generate(Worker)
    \/ OpenImage(Worker)
    \/ SaveOk(Worker)
    \/ \E partial \in BOOLEAN : SaveFails(Worker, partial)
    \/ Return(Worker)

SpecExt == Init /\ [][NextExt]_vars

(***************************************************************************)
(* The functions called on their own, as tests/test_models.py and          *)
(* tests/test_image.py call them: load_user with any id string, and        *)
(* picture_validation with an id that has a row or has none.               *)
(***************************************************************************)
\* str(id) of the rows and of ids without a row, and strings that are not
\* numbers
UserIdInputs == {IdStr(u) : u \in AllIds} \cup {"abc", ""}

\* the ids picture_validation is called with: a row, and no row
DirectIds == {"u1", "u3"}

\* tests/test_models.py: load_user(user_id)
CallLoadUser(user_id) ==
    /\ ~InFlight(Worker)
    /\ nreq < MaxUploads
    /\ LET call == [IdleReq EXCEPT !.arg = user_id, !.direct = TRUE,
                                   !.pre = [files |-> files, db |-> db]]
           r == load_user(db, user_id)
       IN  req' = [req EXCEPT ![Worker] =
                     IF r = "ValueError"
                     THEN Raise(call, "load_user: ValueError")
                     ELSE [Finish(call, "returned") EXCEPT !.loaded = r]]
    /\ nreq' = nreq + 1
    /\ UNCHANGED <<files, db, used, nOk, anyFail, web>>

\* tests/test_image.py: picture_validation(file, id)
CallPictureValidationFor(id, f, d) ==
    /\ ~InFlight(Worker)
    /\ nreq < MaxUploads
    /\ req' = [req EXCEPT ![Worker] =
                 [IdleReq EXCEPT !.pc = "validate", !.user = id,
                                 !.filename = f, !.decodable = d,
                                 !.direct = TRUE,
                                 !.sess = IF id \in DOMAIN db
                                          THEN db[id].profile_image
                                          ELSE <<>>,
                                 !.pre = [files |-> files, db |-> db]]]
    /\ nreq' = nreq + 1
    /\ UNCHANGED <<files, db, used, nOk, anyFail, web>>

NextUnit ==
    \/ \E user_id \in UserIdInputs : CallLoadUser(user_id)
    \/ \E id \in DirectIds, f \in UploadNames, d \in BOOLEAN :
          CallPictureValidationFor(id, f, d)
    \/ Validate(Worker)
    \/ Lookup(Worker)
    \/ Exists(Worker)
    \/ RemoveOk(Worker)
    \/ RemoveFails(Worker)
    \/ Generate(Worker)
    \/ OpenImage(Worker)
    \/ SaveOk(Worker)
    \/ \E partial \in BOOLEAN : SaveFails(Worker, partial)
    \/ Return(Worker)

SpecUnit == Init /\ [][NextUnit]_vars

(***************************************************************************)
(* The thumbnail alone: picture_validation called once with an allowed     *)
(* name and an image of any size up to MaxSide on each side.               *)
(***************************************************************************)
MaxSide == 130    \* widths and heights 1..MaxSide, across the box of 125

SideInputs == (1..MaxSide) \cup {1000, 2000}

CallWithImage(w, h) ==
    /\ nreq = 0
    /\ ~InFlight(Worker)
    /\ req' = [req EXCEPT ![Worker] =
                 [IdleReq EXCEPT !.pc = "validate", !.user = "u1",
                                 !.filename = <<"a", ".", "J", "P", "G">>,
                                 !.decodable = TRUE,
                                 !.direct = TRUE,
                                 !.image_size = <<w, h>>,
                                 !.sess = db["u1"].profile_image,
                                 !.pre = [files |-> files, db |-> db]]]
    /\ nreq' = nreq + 1
    /\ UNCHANGED <<files, db, used, nOk, anyFail, web>>

NextThumb ==
    \/ /\ nreq = 0
       /\ \E w \in SideInputs, h \in SideInputs : CallWithImage(w, h)
    \/ Validate(Worker)
    \/ Lookup(Worker)
    \/ Exists(Worker)
    \/ RemoveOk(Worker)
    \/ RemoveFails(Worker)
    \/ Generate(Worker)
    \/ OpenImage(Worker)
    \/ SaveOk(Worker)
    \/ \E partial \in BOOLEAN : SaveFails(Worker, partial)
    \/ Return(Worker)

SpecThumb == Init /\ [][NextThumb]_vars

(***************************************************************************)
(* Two workers of the server handle account requests of the same user at   *)
(* the same time: nothing in account or save_picture serializes them.      *)
(***************************************************************************)
MaxOverlapped == 2    \* account requests in one behaviour of SpecConc

SameUser == "u1"

BeginOverlapped(p, f, d) ==
    /\ nreq < MaxOverlapped
    /\ Begin(p, SameUser, f, d)
    /\ UNCHANGED web

NextConc ==
    \/ \E p \in Procs, f \in UploadNames, d \in BOOLEAN :
          BeginOverlapped(p, f, d)
    \/ \E p \in Procs : Step(p)

SpecConc == Init /\ [][NextConc]_vars

(***************************************************************************)
(* The web layer: one browser, its session cookie, and the handlers of     *)
(* app/modules/controllers.py, one request at a time.  Form fields are     *)
(* strings; the CSRF token of FlaskForm is taken to be valid.              *)
(***************************************************************************)
MaxRequests == 3    \* requests of the browser in one behaviour

NameInputs == {"Cara", "Al"}
EmailInputs == {"a@x.io", "b@x.io", "c@x.io", "bad.mail"}
PasswordInputs == {"password1", "short"}

\* validators.email(): the addresses email_validator accepts
email_ok(e) == e \in {"a@x.io", "b@x.io", "c@x.io"}

\* validators.length(min, max)
length_ok(lo, hi, data) == Len(data) >= lo /\ Len(data) <= hi

\* validators.DataRequired
data_required(data) == data # ""

\* forms.LoginForm.validate()
LoginForm_validate(email, password) ==
    /\ length_ok(4, 50, email)
    /\ data_required(email)
    /\ email_ok(email)
    /\ data_required(password)
    /\ length_ok(8, 50, password)

RegisterForm_validate_email_none(rows, email) == TRUE

\* forms.RegisterForm.validate_email
RegisterForm_validate_email(rows, email) == by_email(rows, email) = {}

\* forms.RegisterForm.validate()
RegisterForm_validate(rows, name, email, password) ==
    /\ length_ok(4, 50, name)
    /\ length_ok(4, 50, email)
    /\ email_ok(email)
    /\ RegisterForm_validate_email(rows, email)
    /\ data_required(password)
    /\ length_ok(8, 50, password)

\* forms.UpdateUserFrom.validate_email
UpdateUserFrom_validate_email(rows, user, email) ==
    rows[user].email # email => by_email(rows, email) = {}

\* forms.UpdateUserFrom.validate(); the form is built from request.form
\* alone, so FileAllowed sees no file
UpdateUserFrom_validate(rows, user, name, email) ==
    /\ length_ok(4, 50, email)
    /\ email_ok(email)
    /\ UpdateUserFrom_validate_email(rows, user, email)
    /\ length_ok(4, 50, name)

redirect(endpoint, flashed) ==
    [status |-> 302, location |-> endpoint, page |-> "", flash |-> flashed]

render_template(page, flashed) ==
    [status |-> 200, location |-> "", page |-> page, flash |-> flashed]

\* an exception no handler catches: the framework's error response
error_response(code) ==
    [status |-> code, location |-> "", page |-> "", flash |-> <<>>]

\* flask_login.login_required with login_view='auth.signin'
unauthorized ==
    redirect("auth.signin",
             << <<"info", "Please log in to access this page.">> >>)

login_required_none(endpoint) == FALSE

\* the endpoints whose registered view function is wrapped by
\* login_required: account (route outermost); welcome and logout put
\* login_required above route, so the bare function is what is registered
login_required(endpoint) == endpoint = "auth.account"

Request(route, method, name, email, password, part) ==
    [route |-> route, method |-> method, name |-> name, email |-> email,
     password |-> password, part |-> part]

\* the browser receives the response and the session cookie; logged_out
\* records that /auth/logout was requested and no sign-in succeeded since,
\* and whether the session that asked was authenticated
Respond(session, last, resp) ==
    web' = [session |-> session, last |-> last, resp |-> resp,
            n |-> web.n + 1,
            logged_out |->
                IF last.route = "auth.logout"
                THEN IF "user_id" \in DOMAIN web.session
                     THEN "authenticated" ELSE "anonymous"
                ELSE IF last.route = "auth.signin" /\ resp.status = 302
                        /\ resp.flash # <<>>
                     THEN "no"
                     ELSE web.logged_out]

CanRequest == web.n < MaxRequests /\ ~InFlight(Worker)

cu == current_user(web.session, db)

\* controllers.signin
Signin(method, email, password, next) ==
    /\ CanRequest
    /\ LET last == Request("auth.signin", method, "", email, password, next)
           found == by_email(db, email)
       IN  IF is_authenticated(web.session, db)
           THEN Respond(web.session, last, redirect("auth.welcome", <<>>))
           ELSE IF method = "POST" /\ LoginForm_validate(email, password)
           THEN IF /\ found # {}
                   /\ check_password_hash(
                          db[CHOOSE v \in found : TRUE].password, password)
                THEN LET u == CHOOSE v \in found : TRUE
                     IN  Respond(login_user(web.session, u), last,
                                 redirect(IF next # "" THEN next
                                                      ELSE "auth.welcome",
                                          << <<"success", "Welcome">> >>))
                ELSE Respond(web.session, last,
                             render_template("auth/signin.html",
                                 << <<"danger", "Login unsuccessful">> >>))
           ELSE Respond(web.session, last,
                        render_template("auth/signin.html", <<>>))
    /\ UNCHANGED <<files, db, req, used, nreq, nOk, anyFail>>

\* the primary key the next inserted row gets
next_id == NewIds[Cardinality(DOMAIN db) - Cardinality(Users) + 1]

insert_none(rows, id, row) == rows

\* db.session.add(user) and the INSERT of the commit
insert(rows, id, row) ==
    [u \in (DOMAIN rows) \cup {id} |-> IF u = id THEN row ELSE rows[u]]

\* controllers.register; commit_ok: whether db.session.commit() succeeds
Register(method, name, email, password, salt, commit_ok) ==
    /\ CanRequest
    /\ Cardinality(DOMAIN db) - Cardinality(Users) < Len(NewIds)
    /\ LET last == Request("auth.register", method, name, email, password,
                           IF commit_ok THEN "commit ok" ELSE "commit fails")
       IN  IF is_authenticated(web.session, db)
           THEN /\ Respond(web.session, last,
                           redirect("auth.welcome", <<>>))
                /\ db' = db
           ELSE IF method = "POST"
                   /\ RegisterForm_validate(db, name, email, password)
           THEN IF commit_ok
                   /\ unique_email(insert(db, next_id,
                          User(name, email,
                               generate_password_hash(salt, password), 1, 1)))
                THEN /\ db' = insert(db, next_id,
                                User(name, email,
                                     generate_password_hash(salt, password),
                                     1, 1))
                     /\ Respond(web.session, last,
                            redirect("auth.signin",
                                << <<"success", "you are now registered">> >>))
                ELSE /\ db' = db
                     /\ Respond(web.session, last,
                            render_template("auth/signup.html",
                                << <<"danger", "commit error">> >>))
           ELSE /\ db' = db
                /\ Respond(web.session, last,
                           render_template("auth/signup.html", <<>>))
    /\ UNCHANGED <<files, req, used, nreq, nOk, anyFail>>

\* controllers.welcome
Welcome ==
    /\ CanRequest
    /\ LET last == Request("auth.welcome", "GET", "", "", "", "none")
       IN  IF login_required("auth.welcome")
              /\ ~is_authenticated(web.session, db)
           THEN Respond(web.session, last, unauthorized)
           ELSE Respond(web.session, last,
                        render_template("welcome.html", <<>>))
    /\ UNCHANGED <<files, db, req, used, nreq, nOk, anyFail>>

\* controllers.logout
Logout ==
    /\ CanRequest
    /\ LET last == Request("auth.logout", "GET", "", "", "", "none")
       IN  IF login_required("auth.logout")
              /\ ~is_authenticated(web.session, db)
           THEN Respond(web.session, last, unauthorized)
           ELSE Respond(logout_user(web.session), last,
                        redirect("home", <<>>))
    /\ UNCHANGED <<files, db, req, used, nreq, nOk, anyFail>>

\* controllers.account, the requests that end before line 115: not logged
\* in, GET, a form that does not validate, and a POST without a
\* profile_picture part (request.files['profile_picture'] raises
\* BadRequestKeyError).  The anonymous user has no name and no email.
Account(method, name, email, part) ==
    /\ CanRequest
    /\ LET last == Request("auth.account", method, name, email, "", part)
       IN  IF login_required("auth.account")
              /\ ~is_authenticated(web.session, db)
           THEN Respond(web.session, last, unauthorized)
           ELSE IF cu = "none"
           THEN Respond(web.session, last, error_response(500))
           ELSE IF method = "POST"
                   /\ UpdateUserFrom_validate(db, cu, name, email)
           THEN /\ part = "absent"
                /\ Respond(web.session, last, error_response(400))
           ELSE Respond(web.session, last,
                        render_template("auth/account.html", <<>>))
    /\ UNCHANGED <<files, db, req, used, nreq, nOk, anyFail>>

\* controllers.account lines 111-118: a logged-in POST whose form validates
\* and that carries a profile_picture part named f (possibly empty); the
\* request goes on with Step and its response is AccountResponse
AccountPost(name, email, f, d) ==
    /\ CanRequest
    /\ cu # "none"
    /\ UpdateUserFrom_validate(db, cu, name, email)
    /\ StartAccount(Worker, cu, f, d, name, email)
    /\ web' = [web EXCEPT !.last = Request("auth.account", "POST", name,
                                           email, "", "present"),
                          !.resp = NoResponse,
                          !.n = @ + 1]

\* controllers.account lines 119-128: the response of a request that went
\* on to picture_validation or commit
AccountResponse(r) ==
    CASE r.outcome = "updated" ->
            redirect("auth.account",
                << <<"success", "Your information has been updated">> >>)
      [] r.outcome = "rejected" ->
            redirect("auth.account",
                << <<"danger", "file extention is not allowed">> >>)
      [] r.outcome = "error" -> error_response(500)
      [] OTHER -> NoResponse

\* what the browser has received for its last request
response ==
    IF web.last.route = "auth.account" /\ web.resp = NoResponse
    THEN AccountResponse(req[Worker])
    ELSE web.resp

NextWeb ==
    \/ Signin("GET", "", "", "")
    \/ \E email \in EmailInputs, password \in PasswordInputs,
          next \in {"", "auth.account"} :
          Signin("POST", email, password, next)
    \/ \E salt \in Salts : Register("GET", "", "", "", salt, TRUE)
    \/ \E name \in NameInputs, email \in EmailInputs,
          password \in PasswordInputs, salt \in Salts,
          commit_ok \in BOOLEAN :
          Register("POST", name, email, password, salt, commit_ok)
    \/ Welcome
    \/ Logout
    \/ Account("GET", "", "", "absent")
    \/ \E name \in NameInputs, email \in EmailInputs,
          part \in {"absent", "present"} :
          Account("POST", name, email, part)
    \/ \E name \in NameInputs, email \in EmailInputs,
          f \in UploadNames \cup {<<>>}, d \in BOOLEAN :
          AccountPost(name, email, f, d)
    \/ Step(Worker)

SpecWeb == Init /\ [][NextWeb]_vars

(***************************************************************************)
(* Properties.                                                             *)
(***************************************************************************)
Quiet == \A p \in Procs : ~InFlight(p)

Ended(p) == req[p].pc = "done"

OldImage(p) == req[p].pre.db[req[p].user].profile_image

\* the request got as far as storing the thumbnail and no thumbnail is there
StoreFailed(p) ==
    /\ Ended(p)
    /\ req[p].picture_fn # <<>>
    /\ ~(/\ req[p].picture_fn \in DOMAIN files
         /\ files[req[p].picture_fn].kind = "thumbnail")

\* C1: between requests, the committed profile_image of every user names a
\* file that is present in the storage directory.
C1_ProfileNamesStoredFile ==
    Quiet => \A u \in Users : db[u].profile_image \in DOMAIN files

\* C2: default.png stays in the storage directory with its static content,
\* and a request of a user whose profile_image is default.png calls
\* os.remove on nothing.
C2_DefaultPngKept ==
    /\ DefaultPng \in DOMAIN files
    /\ files[DefaultPng] = StaticFile
    /\ \A p \in Procs :
          (req[p].pc # "idle" /\ OldImage(p) = DefaultPng)
              => req[p].removes = {}

\* C3: when storing the thumbnail failed, the committed profile_image of the
\* user is what it was before the request, and the request committed nothing.
C3_FailedStoreKeepsProfile ==
    \A p \in Procs :
        StoreFailed(p) =>
            /\ db[req[p].user].profile_image = OldImage(p)
            /\ req[p].commits = 0

C3_Witness ==
    \E p \in Procs :
        /\ StoreFailed(p)
        /\ req[p].raised = "save: OSError"
        /\ OldImage(p) # DefaultPng

\* C4: after an upload whose image could not be decoded, the storage
\* directory holds exactly the files it held before and the rows are as
\* before.
C4_DecodeErrorNoPartialState ==
    \A p \in Procs :
        (Ended(p) /\ req[p].raised = "open: UnidentifiedImageError") =>
            /\ files = req[p].pre.files
            /\ db = req[p].pre.db

\* the extension as the specification words it: the substring after the
\* final '.', empty when there is none, compared without regard to case
AfterFinalDot(f) ==
    IF \E i \in 1..Len(f) : f[i] = "."
    THEN LET d == CHOOSE i \in 1..Len(f) :
                    /\ f[i] = "."
                    /\ \A j \in (i + 1)..Len(f) : f[j] # "."
         IN  [k \in 1..(Len(f) - d) |-> f[d + k]]
    ELSE <<>>

IsJpgOrPng(e) ==
    /\ Len(e) = 3
    /\ \/ e[1] \in {"j", "J"} /\ e[2] \in {"p", "P"} /\ e[3] \in {"g", "G"}
       \/ e[1] \in {"p", "P"} /\ e[2] \in {"n", "N"} /\ e[3] \in {"g", "G"}

NamedJpgOrPng(f) == IsJpgOrPng(AfterFinalDot(f))

\* the final '.' lies in the last path component and a character other
\* than '.' comes before it in that component
DotAfterStem(f) ==
    \E d \in 1..Len(f) :
        /\ f[d] = "."
        /\ \A j \in (d + 1)..Len(f) : f[j] \notin {".", "/"}
        /\ \E k \in 1..(d - 1) :
              /\ f[k] # "."
              /\ \A j \in k..d : f[j] # "/"

RejectedResult == [val |-> allowed_ext, ok |-> FALSE, set |-> TRUE]

\* C5: a request whose filename's extension is not jpg or png ends with
\* (allowed_ext, False), never enters save_picture, and leaves the storage
\* directory and the rows as they were.
C5_DisallowedExtensionNoMutation ==
    \A p \in Procs :
        (req[p].pc \notin {"idle", "validate"}
            /\ ~NamedJpgOrPng(req[p].filename)) =>
            /\ req[p].result = RejectedResult
            /\ req[p].save_calls = 0
            /\ req[p].removes = {}
            /\ files = req[p].pre.files
            /\ db = req[p].pre.db

C5_Witness ==
    \E p \in Procs :
        /\ Ended(p)
        /\ req[p].outcome = "rejected"
        /\ ~NamedJpgOrPng(req[p].filename)
        /\ OldImage(p) # DefaultPng
        /\ OldImage(p) \in DOMAIN files

Generated(u) == {n \in DOMAIN files : files[n].owner = u}

\* C6: a successful upload by a user whose profile_image named a stored,
\* non-default file leaves that file absent and the new file present; and
\* between requests, a user all of whose uploads succeeded has exactly one
\* generated file in the storage directory, the one profile_image names.
C6_OneStoredFilePerUser ==
    /\ \A p \in Procs :
          (/\ Ended(p)
           /\ req[p].outcome = "updated"
           /\ OldImage(p) # DefaultPng
           /\ OldImage(p) \in DOMAIN req[p].pre.files) =>
              /\ OldImage(p) \notin DOMAIN files
              /\ req[p].picture_fn \in DOMAIN files
              /\ db[req[p].user].profile_image = req[p].picture_fn
    /\ \A u \in Users :
          (Quiet /\ nOk[u] >= 1 /\ ~anyFail[u]) =>
              Generated(u) = {db[u].profile_image}

C6_Witness ==
    \E p \in Procs :
        /\ Ended(p)
        /\ req[p].outcome = "updated"
        /\ OldImage(p) # DefaultPng
        /\ OldImage(p) \in DOMAIN req[p].pre.files
        /\ nOk[req[p].user] = 2
        /\ ~anyFail[req[p].user]

C8_SavePictureUpdatesRowAndCommits ==
    \A p \in Procs :
        req[p].pc = "returned" =>
            /\ req[p].sess = req[p].picture_fn
            /\ req[p].commits = 1

\* C9: a failing delete of the superseded file does not end the request:
\* no exception reaches the caller, the new image is stored and its
\* filename is returned.  (A request that ended inside save_picture before
\* a new name was generated is one whose os.remove failed.)
C9_DeleteFailureNotPropagated ==
    \A p \in Procs :
        (Ended(p) /\ req[p].save_calls = 1 /\ req[p].picture_fn = <<>>) =>
            /\ req[p].raised = "none"
            /\ req[p].result.ok

\* save_picture was entered and no thumbnail of this request is stored
SavePictureFailed(p) ==
    /\ Ended(p)
    /\ req[p].save_calls = 1
    /\ ~(/\ req[p].picture_fn \in DOMAIN files
         /\ files[req[p].picture_fn].kind = "thumbnail")

\* C10: when save_picture did not store the new image, the request ended
\* with the exception raised in it: picture_validation returned no result,
\* neither (..., False) nor (filename, True).
C10_StoreErrorPropagates ==
    \A p \in Procs :
        SavePictureFailed(p) =>
            /\ req[p].raised \in {"remove: OSError",
                                  "open: UnidentifiedImageError",
                                  "save: OSError"}
            /\ req[p].outcome = "error"
            /\ ~req[p].result.set

C10_Witness ==
    \E p \in Procs :
        /\ SavePictureFailed(p)
        /\ req[p].raised = "open: UnidentifiedImageError"
        /\ ~req[p].decodable


(***************************************************************************)
(* Properties of the web layer.                                            *)
(***************************************************************************)
\* this step is the browser's request to route
Served(route) == web'.n = web.n + 1 /\ web'.last.route = route

Authenticated == is_authenticated(web.session, db)

\* C12: a request to /auth/account from a session that is not authenticated
\* is answered with the redirect to the sign-in page, and the step changes
\* no row, no session key, no stored file and starts no upload.
C12_AccountRequiresLogin ==
    [][(Served("auth.account") /\ ~Authenticated) =>
          /\ web'.resp = unauthorized
          /\ web'.resp.status = 302
          /\ web'.resp.location = "auth.signin"
          /\ web'.session = web.session
          /\ db' = db
          /\ files' = files
          /\ req' = req]_vars

C12_Witness ==
    /\ web.last.route = "auth.account"
    /\ web.last.method = "POST"
    /\ web.last.name = "Cara"
    /\ web.resp = unauthorized
    /\ ~Authenticated

\* C13: a GET of /auth/welcome from a session that is not authenticated is
\* answered with the 302 redirect to the sign-in page, and welcome.html is
\* rendered only for an authenticated session.
C13_WelcomeRequiresLogin ==
    [][Served("auth.welcome") =>
          IF Authenticated
          THEN web'.resp.page = "welcome.html"
          ELSE /\ web'.resp.status = 302
               /\ web'.resp.location = "auth.signin"]_vars

\* the password a stored hash was generated from
PasswordOf(rows, u) == rows[u].password.digest[2]

\* the submitted credentials are those of row u and the form validates
Credentials(u, last) ==
    /\ LoginForm_validate(last.email, last.password)
    /\ u \in DOMAIN db
    /\ db[u].email = last.email
    /\ PasswordOf(db, u) = last.password

SigninPost ==
    /\ Served("auth.signin")
    /\ web'.last.method = "POST"
    /\ ~Authenticated

\* C14 as stated: a POST to /auth/signin/ from an unauthenticated session
\* authenticates the session as u exactly when the form validates and the
\* credentials are those of u; in every other case the session has no
\* user_id and the sign-in page is shown with 'Login unsuccessful'.
C14_SigninIffElseUnsuccessful ==
    [][SigninPost =>
          /\ \A u \in AllIds :
                current_user(web'.session, db') = u
                    <=> Credentials(u, web'.last)
          /\ (~\E u \in AllIds : Credentials(u, web'.last)) =>
                /\ "user_id" \notin DOMAIN web'.session
                /\ web'.resp.page = "auth/signin.html"
                /\ web'.resp.flash = << <<"danger", "Login unsuccessful">> >>
      ]_vars

\* C14: a POST to /auth/signin/ from an unauthenticated session
\* authenticates the session as u exactly when the form validates and the
\* credentials are those of u, and then redirects; in every other case the
\* session has no user_id and the sign-in page is shown, with 'Login
\* unsuccessful' exactly when the form validated.
C14_SigninIffElseSigninPage ==
    [][SigninPost =>
          /\ \A u \in AllIds :
                current_user(web'.session, db') = u
                    <=> Credentials(u, web'.last)
          /\ (\E u \in AllIds : Credentials(u, web'.last)) =>
                /\ web'.resp.status = 302
                /\ web'.session["_fresh"] = "True"
          /\ (~\E u \in AllIds : Credentials(u, web'.last)) =>
                /\ "user_id" \notin DOMAIN web'.session
                /\ web'.resp.page = "auth/signin.html"
                /\ web'.resp.flash =
                      IF LoginForm_validate(web'.last.email,
                                            web'.last.password)
                      THEN << <<"danger", "Login unsuccessful">> >>
                      ELSE <<>>
          /\ db' = db
      ]_vars

C14_Witness ==
    /\ web.last.route = "auth.signin"
    /\ web.last.method = "POST"
    /\ web.last.email = "a@x.io"
    /\ web.n = 1
    /\ current_user(web.session, db) = "u1"
    /\ web.resp.status = 302

\* C15: a request to /auth/logout, from an authenticated session or not,
\* leaves the session without user_id and without _fresh and is answered
\* with the redirect to home; from then until a sign-in succeeds every
\* request to /auth/account is answered with the redirect to sign-in.
C15_LogoutEndsSession ==
    [][/\ Served("auth.logout") =>
             /\ "user_id" \notin DOMAIN web'.session
             /\ "_fresh" \notin DOMAIN web'.session
             /\ web'.resp = redirect("home", <<>>)
             /\ web'.logged_out # "no"
       /\ (web.logged_out # "no" /\ Served("auth.account")) =>
             /\ web'.resp = unauthorized
             /\ req' = req
       /\ (web.logged_out # "no" /\ web'.logged_out = "no") =>
             /\ web'.last.route = "auth.signin"
             /\ \E u \in AllIds : Credentials(u, web'.last)
      ]_vars

\* signed in, logged out, and then asked for the account page
C15_Witness ==
    /\ web.logged_out = "authenticated"
    /\ web.n = 3
    /\ web.last.route = "auth.account"
    /\ web.resp = unauthorized

NoTwoSameEmail(rows) ==
    \A u, v \in DOMAIN rows : u # v => rows[u].email # rows[v].email

EmailHeldBy(holders, email) == \E v \in holders : db[v].email = email

\* C16: with one request at a time no two rows ever have the same email: a
\* registration with an email in use and an account update to the email of
\* another row are turned down by the form, with the page rendered again
\* and no row changed, and an account update that keeps the user's own
\* email goes on to the commit.
C16_EmailsStayUnique ==
    [][/\ NoTwoSameEmail(db)
       /\ NoTwoSameEmail(db')
       /\ ( /\ Served("auth.register")
            /\ web'.last.method = "POST"
            /\ ~Authenticated
            /\ EmailHeldBy(DOMAIN db, web'.last.email) ) =>
             /\ db' = db
             /\ web'.resp = render_template("auth/signup.html", <<>>)
       /\ ( /\ Served("auth.account")
            /\ web'.last.method = "POST"
            /\ Authenticated
            /\ EmailHeldBy((DOMAIN db) \ {cu}, web'.last.email) ) =>
             /\ db' = db
             /\ req' = req
             /\ web'.resp = render_template("auth/account.html", <<>>)
       /\ ( /\ Served("auth.account")
            /\ web'.last.method = "POST"
            /\ Authenticated
            /\ web'.last.email = db[cu].email
            /\ web'.last.name = "Cara"
            /\ web'.last.part = "present" ) =>
             /\ req'[Worker].pc \in {"validate", "commit"}
             /\ req'[Worker].user = cu
             /\ req'[Worker].form_email = db[cu].email
      ]_vars

\* c@x.io was registered, and u1's account update to c@x.io was then
\* turned down
C16_Witness ==
    /\ \E u \in (DOMAIN db) \ Users : db[u].email = "c@x.io"
    /\ cu = "u1"
    /\ web.last.route = "auth.account"
    /\ web.last.method = "POST"
    /\ web.last.email = "c@x.io"
    /\ web.last.name = "Cara"
    /\ web.resp = render_template("auth/account.html", <<>>)
    /\ db["u1"].email = "a@x.io"

\* the fields of a registration pass the validators of forms.py lines 26-29
RegisterFieldsOk(last) ==
    /\ length_ok(4, 50, last.name)
    /\ length_ok(4, 50, last.email) /\ email_ok(last.email)
    /\ data_required(last.password) /\ length_ok(8, 50, last.password)

\* C17: a registration whose email is already in use still reaches
\* db.session.add and the commit, the exception of the commit is flashed
\* with category 'danger', the register page is rendered again, and there is
\* no second row with that email afterwards.
C17_DuplicateRegistrationFlashesDanger ==
    [][( /\ Served("auth.register")
         /\ web'.last.method = "POST"
         /\ ~Authenticated
         /\ RegisterFieldsOk(web'.last)
         /\ EmailHeldBy(DOMAIN db, web'.last.email) ) =>
          /\ web'.resp.status = 200
          /\ web'.resp.page = "auth/signup.html"
          /\ \E i \in DOMAIN web'.resp.flash :
                web'.resp.flash[i][1] = "danger"
          /\ Cardinality(by_email(db', web'.last.email)) = 1
      ]_vars

\* C18: a valid POST to /auth/account of an authenticated user without a
\* profile_picture part sets the name and the email of that user, answers
\* with 'Your information has been updated' and leaves profile_image and
\* the storage directory as they were.
C18_UpdateWithoutPicturePart ==
    [][( /\ Served("auth.account")
         /\ web'.last.method = "POST"
         /\ Authenticated
         /\ web'.last.part = "absent"
         /\ UpdateUserFrom_validate(db, cu, web'.last.name,
                                    web'.last.email) ) =>
          /\ web'.resp.status = 302
          /\ web'.resp.flash =
                << <<"success", "Your information has been updated">> >>
          /\ db' = [db EXCEPT ![cu].name = web'.last.name,
                              ![cu].email = web'.last.email]
          /\ files' = files
      ]_vars

\* the last request of the browser is an account POST that got past the
\* form with a picture, and it has ended
PictureRequestEnded ==
    /\ web.last.route = "auth.account"
    /\ web.last.part = "present"
    /\ web.resp = NoResponse
    /\ Ended(Worker)
    /\ req[Worker].filename # <<>>

\* C19: a valid POST to /auth/account of an authenticated user with a
\* picture calls picture_validation once, for the row of the current user;
\* when that returned (filename, True), one commit writes the filename as
\* profile_image together with the name and the email of the form and the
\* answer is 'Your information has been updated', or that one commit raised
\* and no row changed.
C19_PictureCommittedWithNameAndEmail ==
    PictureRequestEnded =>
        LET r == req[Worker]
        IN  /\ r.validations = 1
            /\ r.user = cu
            /\ r.form_name = web.last.name
            /\ r.form_email = web.last.email
            /\ (r.result.set /\ r.result.ok) =>
                  \/ /\ r.outcome = "updated"
                     /\ r.commits = 1
                     /\ db = [r.pre.db EXCEPT
                                ![cu].profile_image = r.result.val,
                                ![cu].name = web.last.name,
                                ![cu].email = web.last.email]
                     /\ response.flash =
                          << <<"success",
                               "Your information has been updated">> >>
                  \/ /\ r.raised = "commit: SQLAlchemyError"
                     /\ r.commits = 0
                     /\ db = r.pre.db

C19_Witness ==
    /\ PictureRequestEnded
    /\ req[Worker].result.ok
    /\ req[Worker].outcome = "updated"
    /\ web.last.name = "Cara"
    /\ web.last.email = "c@x.io"
    /\ db[cu].profile_image = req[Worker].picture_fn
    /\ db[cu].profile_image # DefaultPng

\* a registration that validates, from a session that is not authenticated,
\* whose commit succeeds
RegistrationSucceeds ==
    /\ Served("auth.register")
    /\ web'.last.method = "POST"
    /\ ~Authenticated
    /\ RegisterFieldsOk(web'.last)
    /\ ~EmailHeldBy(DOMAIN db, web'.last.email)
    /\ web'.last.part = "commit ok"

\* C20: a successful registration adds, in its one commit, exactly one row:
\* the submitted name and email, a hash of the submitted password, role 1,
\* status 1 and profile_image default.png; it redirects to sign-in and the
\* session is not authenticated afterwards.
C20_RegistrationAddsOneUser ==
    [][RegistrationSucceeds =>
          \E id \in AllIds \ DOMAIN db :
             /\ DOMAIN db' = (DOMAIN db) \cup {id}
             /\ \A u \in DOMAIN db : db'[u] = db[u]
             /\ db'[id].name = web'.last.name
             /\ db'[id].email = web'.last.email
             /\ DOMAIN db'[id].password = {"method", "salt", "digest"}
             /\ PasswordOf(db', id) = web'.last.password
             /\ db'[id].role = 1
             /\ db'[id].status = 1
             /\ db'[id].profile_image = DefaultPng
             /\ web'.resp.status = 302
             /\ web'.resp.location = "auth.signin"
             /\ web'.session = web.session
             /\ ~is_authenticated(web'.session, db')
      ]_vars

C20_Witness ==
    /\ web.last.route = "auth.register"
    /\ web.last.method = "POST"
    /\ web.last.part = "commit ok"
    /\ web.resp.location = "auth.signin"
    /\ \E id \in (DOMAIN db) \ Users :
          /\ db[id].email = web.last.email
          /\ db[id].name = "Cara"
    /\ ~Authenticated

(***************************************************************************)
(* Properties of overlapping account requests.                             *)
(***************************************************************************)
\* both requests are uploads of the same user that ended with the commit,
\* and both loaded the row before either committed
Overlapped(p, q) ==
    /\ p # q
    /\ Ended(p) /\ Ended(q)
    /\ req[p].user = req[q].user
    /\ req[p].outcome = "updated" /\ req[q].outcome = "updated"
    /\ req[p].filename # <<>> /\ req[q].filename # <<>>
    /\ OldImage(p) = OldImage(q)

\* a stored thumbnail that no row names and that no request in flight has
\* loaded as the profile_image of its user or has just written
Orphan(n) ==
    /\ n \in DOMAIN files
    /\ files[n].kind = "thumbnail"
    /\ \A u \in DOMAIN db : db[u].profile_image # n
    /\ \A p \in Procs :
          InFlight(p) => (req[p].sess # n /\ req[p].picture_fn # n)

OverlapOutcome(p, q) ==
    /\ req[p].result.ok /\ req[q].result.ok
    /\ req[p].picture_fn # req[q].picture_fn
    /\ req[p].picture_fn \in DOMAIN files
    /\ req[q].picture_fn \in DOMAIN files
    /\ db[req[p].user].profile_image \in {req[p].picture_fn, req[q].picture_fn}
    /\ \E n \in {req[p].picture_fn, req[q].picture_fn} : Orphan(n)

\* C11: two uploads of the same user that overlap and both commit have both
\* passed validation and written two different files; the commit of an
\* upload makes its file the profile_image whatever was committed before,
\* so the row names the file of the later commit; the other file is named
\* by no row, and a file in that position is never removed.
C11_OverlapLeavesOrphan ==
    [][/\ \A p, q \in Procs :
             /\ Overlapped(p, q) => OverlapOutcome(p, q)
             /\ (Overlapped(p, q))' => (OverlapOutcome(p, q))'
       /\ \A p \in Procs :
             ( /\ req[p].pc = "commit"
               /\ req'[p].outcome = "updated"
               /\ req[p].filename # <<>> ) =>
                   db'[req[p].user].profile_image = req[p].picture_fn
       /\ \A n \in DOMAIN files : Orphan(n) => (Orphan(n))'
      ]_vars

\* p1 committed first, p2 last: the row names p2's file, p1's is orphaned
C11_Witness ==
    /\ Overlapped("p1", "p2")
    /\ db[SameUser].profile_image = req["p2"].picture_fn
    /\ Orphan(req["p1"].picture_fn)
    /\ req["p1"].picture_fn # req["p2"].picture_fn
    /\ req["p1"].validations = 1 /\ req["p2"].validations = 1

\* the row the session's user_id names, "none" when there is none
SessionUser(session, rows) ==
    IF \E u \in DOMAIN rows :
          "user_id" \in DOMAIN session /\ session["user_id"] = IdStr(u)
    THEN CHOOSE u \in DOMAIN rows : session["user_id"] = IdStr(u)
    ELSE "none"

\* C21: a request to /auth/signin/ or /auth/register/ from a session that is
\* already authenticated is answered with the redirect to the welcome page
\* and nothing else: no row is added or changed, nothing is flashed (the
\* credentials were not looked at), and the session and its user stay.
C21_AuthenticatedSkipsForms ==
    [][( /\ Served("auth.signin") \/ Served("auth.register")
         /\ SessionUser(web.session, db) # "none" ) =>
          /\ web'.resp = redirect("auth.welcome", <<>>)
          /\ db' = db
          /\ web'.session = web.session
          /\ SessionUser(web'.session, db') = SessionUser(web.session, db)
          /\ req' = req
      ]_vars

\* u1 is signed in and posts a registration that would otherwise succeed
C21_Witness ==
    /\ web.last.route = "auth.register"
    /\ web.last.method = "POST"
    /\ web.last.name = "Cara"
    /\ web.last.email = "c@x.io"
    /\ web.last.password = "password1"
    /\ web.last.part = "commit ok"
    /\ web.resp = redirect("auth.welcome", <<>>)
    /\ SessionUser(web.session, db) = "u1"
    /\ DOMAIN db = Users

(***************************************************************************)
(* Properties of the functions called on their own.                        *)
(***************************************************************************)
LoadUserEnded ==
    /\ Ended(Worker)
    /\ req[Worker].direct
    /\ req[Worker].filename = <<>>

\* C22: load_user(user_id) returns the row whose id is the integer value of
\* user_id when there is one, and returns None without raising for every
\* other string: a number that is the id of no row, and a string that is
\* not a number.
C22_LoadUserNeverRaises ==
    LoadUserEnded =>
        /\ req[Worker].raised = "none"
        /\ req[Worker].loaded =
              IF \E u \in DOMAIN db : IdStr(u) = req[Worker].arg
              THEN CHOOSE u \in DOMAIN db : IdStr(u) = req[Worker].arg
              ELSE "none"

\* the workflow of save_picture ran for an id that has no row
NoRowUpload(p) ==
    /\ Ended(p)
    /\ req[p].save_calls >= 1
    /\ req[p].user \notin DOMAIN req[p].pre.db

IsHexChar(c) ==
    c \in {"0", "1", "2", "3", "4", "5", "6", "7", "8", "9",
           "a", "b", "c", "d", "e", "f"}

\* the first n characters of s, and the rest
Take(s, n) == [i \in 1..n |-> s[i]]

Drop(s, n) == [i \in 1..(Len(s) - n) |-> s[n + i]]

\* C24: the name save_picture generates is 16 hexadecimal characters
\* followed by '.' and the characters after the final '.' of the original
\* filename in their original case; that name is what is returned, and the
\* thumbnail is stored under exactly that name.
C24_NameIsTokenPlusExtension ==
    \A p \in Procs :
        /\ req[p].picture_fn # <<>> =>
              /\ Len(req[p].picture_fn) =
                    16 + 1 + Len(AfterFinalDot(req[p].filename))
              /\ \A i \in 1..16 : IsHexChar(req[p].picture_fn[i])
              /\ Drop(req[p].picture_fn, 16) =
                    <<".">> \o AfterFinalDot(req[p].filename)
        /\ (req[p].result.set /\ req[p].result.ok) =>
              /\ req[p].result.val = req[p].picture_fn
              /\ req[p].picture_fn \in DOMAIN files
              /\ files[req[p].picture_fn].kind = "thumbnail"
              /\ DOMAIN files =
                    (DOMAIN req[p].pre.files \ req[p].removes)
                        \cup {req[p].picture_fn}

C24_Witness ==
    /\ Ended(Worker)
    /\ req[Worker].result.ok
    /\ req[Worker].filename = <<"p", ".", "J", "p", "g">>
    /\ Drop(req[Worker].picture_fn, 16) = <<".", "J", "p", "g">>
    /\ req[Worker].picture_fn \in DOMAIN files

(***************************************************************************)
(* Properties of the stored thumbnail.                                     *)
(***************************************************************************)
Stored(p) ==
    /\ Ended(p)
    /\ req[p].result.set /\ req[p].result.ok
    /\ req[p].picture_fn \in DOMAIN files
    /\ files[req[p].picture_fn].kind = "thumbnail"

\* out keeps the aspect ratio of in up to integer rounding: with the longer
\* side of in at limit, the other side is within one pixel of its exact
\* value, or is the one pixel a side has at least
KeepsAspect(in, out, limit) ==
    IF in[1] >= in[2]
    THEN /\ out[1] = limit
         /\ \/ Abs(out[2] * in[1] - limit * in[2]) < in[1]
            \/ out[2] = 1
    ELSE /\ out[2] = limit
         /\ \/ Abs(out[1] * in[2] - limit * in[1]) < in[2]
            \/ out[1] = 1

ThumbnailFits(in, out) ==
    /\ out[1] >= 1 /\ out[2] >= 1
    /\ out[1] <= 125 /\ out[2] <= 125
    /\ out[1] <= in[1] /\ out[2] <= in[2]
    /\ IF in[1] <= 125 /\ in[2] <= 125
       THEN out = in
       ELSE KeepsAspect(in, out, 125)

\* C25 as stated: the stored thumbnail is at most 125 wide and 125 high,
\* never larger than the input on either axis (an input within the box is
\* stored at its size), keeps the aspect ratio up to integer rounding, and
\* 2000 x 1000 gives 125 x 62.
C25_ThumbnailSize62 ==
    \A p \in Procs :
        Stored(p) =>
            /\ ThumbnailFits(req[p].image_size, files[req[p].picture_fn].size)
            /\ req[p].image_size = <<2000, 1000>> =>
                  files[req[p].picture_fn].size = <<125, 62>>

\* C25: the stored thumbnail is at most 125 wide and 125 high, never larger
\* than the input on either axis (an input within the box is stored at its
\* size), keeps the aspect ratio up to integer rounding, and 2000 x 1000
\* gives 125 x 62 or 125 x 63.
C25_ThumbnailSize ==
    \A p \in Procs :
        Stored(p) =>
            /\ ThumbnailFits(req[p].image_size, files[req[p].picture_fn].size)
            /\ req[p].image_size = <<2000, 1000>> =>
                  files[req[p].picture_fn].size \in {<<125, 62>>, <<125, 63>>}

C25_Witness ==
    /\ Stored(Worker)
    /\ req[Worker].image_size = <<2000, 1000>>
    /\ files[req[Worker].picture_fn].size = <<125, 63>>

(***************************************************************************)
(* Properties of uploads against other users, failed commits and the       *)
(* removal of the old file.                                                *)
(***************************************************************************)
\* C26: an upload of user A leaves the file that the profile_image of every
\* other user B named before the upload in the storage directory, with the
\* content it had.
C26_OtherUsersFileKept ==
    \A p \in Procs :
        (req[p].pc # "idle" /\ req[p].user \in DOMAIN req[p].pre.db) =>
            \A B \in (DOMAIN req[p].pre.db) \ {req[p].user} :
                LET n == req[p].pre.db[B].profile_image
                IN  n \in DOMAIN req[p].pre.files =>
                        /\ n \in DOMAIN files
                        /\ files[n] = req[p].pre.files[n]

\* C27: when the commit of account fails after picture_validation returned
\* (filename, True), the committed profile_image of the user names a file
\* that exists and the storage directory holds no generated file that no
\* row names.
C27_FailedCommitConsistent ==
    \A p \in Procs :
        ( /\ Ended(p)
          /\ req[p].raised = "commit: SQLAlchemyError"
          /\ req[p].result.set /\ req[p].result.ok ) =>
            /\ db[req[p].user].profile_image \in DOMAIN files
            /\ \A n \in DOMAIN files :
                  files[n].kind = "thumbnail" =>
                      \E u \in DOMAIN db : db[u].profile_image = n

\* C28: os.remove of the old file at a moment when the file is absent is a
\* no-op: an upload that saw the file exist and finds it removed by another
\* upload of the same user goes on without an error.
C28_RemoveOfAbsentFileIsNoOp ==
    [][\A p \in Procs :
          ( /\ req[p].pc = "remove"
            /\ ~path_exists(files, req[p].path)
            /\ req'[p] # req[p] ) =>
              /\ req'[p].raised = "none"
              /\ req'[p].pc = "gen"
      ]_vars

=============================================================================
